---- MODULE Spec2Model ----
(***************************************************************************)
(* Model of client/src/components/DynamicJsonForm.tsx: the dual-mode       *)
(* (form / raw JSON) editor, its debounced parse timer, its effects and    *)
(* its single commit path.                                                 *)
(*                                                                         *)
(* Text is a sequence of one-character strings.  JSON values are tagged    *)
(* records [k |-> kind, v |-> payload]; an object's payload is the         *)
(* sequence of its <<key, value>> members in insertion order.              *)
(***************************************************************************)
EXTENDS Integers, Sequences, FiniteSets, TLC

(***************************************************************************)
(* JSON values                                                             *)
(***************************************************************************)
Undefined == [k |-> "undefined", v |-> 0]
Null == [k |-> "null", v |-> 0]
Bool(b) == [k |-> "boolean", v |-> b]
Num(n) == [k |-> "number", v |-> n]
\* a number that is not integral: n is its integer part, f the digits of its
\* fraction, the last of them not 0
Frac(n, f) == [k |-> "number", v |-> n, f |-> f]
Str(s) == [k |-> "string", v |-> s]
Obj(members) == [k |-> "object", v |-> members]
Arr(items) == [k |-> "array", v |-> items]

\* value ?? other
Coalesce(value, other) == IF value.k \in {"undefined", "null"} THEN other ELSE value

Whitespace == {" ", "\n", "\t", "\r"}
Digits == <<"0", "1", "2", "3", "4", "5", "6", "7", "8", "9">>
DigitSet == {Digits[i] : i \in 1..10}
DigitVal(c) == (CHOOSE i \in 1..10 : Digits[i] = c) - 1

(***************************************************************************)
(* JSON.parse over the texts the model uses: whitespace, the three         *)
(* literals, non-negative integers, strings without escapes, arrays and    *)
(* objects.  A result is [ok, v, pos]: on success pos is the index after   *)
(* the value, on failure it is the index of the offending character.       *)
(***************************************************************************)
RECURSIVE SkipWs(_, _)
SkipWs(s, i) == IF i <= Len(s) /\ s[i] \in Whitespace THEN SkipWs(s, i + 1) ELSE i

Fail(i) == [ok |-> FALSE, v |-> Undefined, pos |-> i]
Ok(val, i) == [ok |-> TRUE, v |-> val, pos |-> i]

RECURSIVE MatchLiteral(_, _, _, _)
\* index after the literal when s continues with lit[n..] at i, else the
\* negated index of the first character that does not match
MatchLiteral(s, i, lit, n) ==
  IF n > Len(lit) THEN i
  ELSE IF i <= Len(s) /\ s[i] = lit[n] THEN MatchLiteral(s, i + 1, lit, n + 1)
  ELSE 0 - i

ParseLiteral(s, i, lit, val) ==
  LET m == MatchLiteral(s, i, lit, 1)
  IN  IF m > 0 THEN Ok(val, m) ELSE Fail(0 - m)

RECURSIVE ScanDigits(_, _, _)
ScanDigits(s, i, acc) ==
  IF i <= Len(s) /\ s[i] \in DigitSet
    THEN ScanDigits(s, i + 1, acc * 10 + DigitVal(s[i]))
    ELSE Ok(Num(acc), i)

\* a leading 0 is a complete number: 01 leaves the 1 as an unexpected token
ParseNumber(s, i) == IF s[i] = "0" THEN Ok(Num(0), i + 1) ELSE ScanDigits(s, i, 0)

RECURSIVE ScanString(_, _, _)
\* i is the index after the opening quote
ScanString(s, i, acc) ==
  IF i > Len(s) THEN Fail(i)
  ELSE IF s[i] = "\"" THEN Ok(Str(acc), i + 1)
  ELSE IF s[i] \in {"\n", "\t", "\r"} THEN Fail(i)
  ELSE ScanString(s, i + 1, Append(acc, s[i]))

RECURSIVE HasKey(_, _)
HasKey(members, key) ==
  IF members = <<>> THEN FALSE
  ELSE Head(members)[1] = key \/ HasKey(Tail(members), key)

\* obj[key] = val: an existing key keeps its position
SetMember(members, key, val) ==
  IF HasKey(members, key)
    THEN [i \in 1..Len(members) |->
            IF members[i][1] = key THEN <<key, val>> ELSE members[i]]
    ELSE Append(members, <<key, val>>)

\* obj[key]
GetMember(members, key) ==
  IF HasKey(members, key)
    THEN members[CHOOSE i \in 1..Len(members) : members[i][1] = key][2]
    ELSE Undefined

RECURSIVE ParseValue(_, _)
RECURSIVE ParseMembers(_, _, _)
RECURSIVE ParseElements(_, _, _)

\* i is the index where a key must start
ParseMembers(s, i, acc) ==
  IF i > Len(s) \/ s[i] # "\"" THEN Fail(i)
  ELSE
    LET key == ScanString(s, i + 1, <<>>)
    IN  IF ~key.ok THEN key
        ELSE
          LET c == SkipWs(s, key.pos)
          IN  IF c > Len(s) \/ s[c] # ":" THEN Fail(c)
              ELSE
                LET val == ParseValue(s, SkipWs(s, c + 1))
                IN  IF ~val.ok THEN val
                    ELSE
                      LET e == SkipWs(s, val.pos)
                          members == SetMember(acc, key.v.v, val.v)
                      IN  IF e > Len(s) THEN Fail(e)
                          ELSE IF s[e] = "}" THEN Ok(Obj(members), e + 1)
                          ELSE IF s[e] = "," THEN ParseMembers(s, SkipWs(s, e + 1), members)
                          ELSE Fail(e)

\* i is the index where an element must start
ParseElements(s, i, acc) ==
  LET val == ParseValue(s, i)
  IN  IF ~val.ok THEN val
      ELSE
        LET e == SkipWs(s, val.pos)
            items == Append(acc, val.v)
        IN  IF e > Len(s) THEN Fail(e)
            ELSE IF s[e] = "]" THEN Ok(Arr(items), e + 1)
            ELSE IF s[e] = "," THEN ParseElements(s, SkipWs(s, e + 1), items)
            ELSE Fail(e)

ParseValue(s, i) ==
  IF i > Len(s) THEN Fail(i)
  ELSE IF s[i] = "{" THEN
    LET j == SkipWs(s, i + 1)
    IN  IF j <= Len(s) /\ s[j] = "}" THEN Ok(Obj(<<>>), j + 1)
        ELSE ParseMembers(s, j, <<>>)
  ELSE IF s[i] = "[" THEN
    LET j == SkipWs(s, i + 1)
    IN  IF j <= Len(s) /\ s[j] = "]" THEN Ok(Arr(<<>>), j + 1)
        ELSE ParseElements(s, j, <<>>)
  ELSE IF s[i] = "\"" THEN ScanString(s, i + 1, <<>>)
  ELSE IF s[i] \in DigitSet THEN ParseNumber(s, i)
  ELSE IF s[i] = "n" THEN ParseLiteral(s, i, <<"n", "u", "l", "l">>, Null)
  ELSE IF s[i] = "t" THEN ParseLiteral(s, i, <<"t", "r", "u", "e">>, Bool(TRUE))
  ELSE IF s[i] = "f" THEN ParseLiteral(s, i, <<"f", "a", "l", "s", "e">>, Bool(FALSE))
  ELSE Fail(i)

\* JSON.parse(s): [ok |-> TRUE, v |-> value] or [ok |-> FALSE, ...] (throws)
JSONparse(s) ==
  LET r == ParseValue(s, SkipWs(s, 1))
  IN  IF ~r.ok THEN r
      ELSE LET e == SkipWs(s, r.pos)
           IN  IF e <= Len(s) THEN Fail(e) ELSE r

\* the message of the SyntaxError JSON.parse throws: its wording belongs to
\* the engine, the model keeps the offset it reports
ParseMessage(s) == <<"SyntaxError", JSONparse(s).pos>>

(***************************************************************************)
(* JSON.stringify(value, null, 2)                                          *)
(***************************************************************************)
Spaces(n) == [i \in 1..n |-> " "]

RECURSIVE NumText(_)
NumText(n) == IF n < 10 THEN <<Digits[n + 1]>> ELSE NumText(n \div 10) \o <<Digits[(n % 10) + 1]>>

RECURSIVE Stringify(_, _)
RECURSIVE StringifyMembers(_, _, _)
RECURSIVE StringifyItems(_, _, _)

\* members whose value is undefined are left out
StringifyMembers(members, ind, first) ==
  IF members = <<>> THEN <<>>
  ELSE
    LET m == Head(members)
    IN  IF m[2].k = "undefined" THEN StringifyMembers(Tail(members), ind, first)
        ELSE (IF first THEN <<>> ELSE <<",">>) \o <<"\n">> \o Spaces(ind)
             \o <<"\"">> \o m[1] \o <<"\"", ":", " ">> \o Stringify(m[2], ind)
             \o StringifyMembers(Tail(members), ind, FALSE)

\* an undefined item is written as null
StringifyItems(items, ind, first) ==
  IF items = <<>> THEN <<>>
  ELSE (IF first THEN <<>> ELSE <<",">>) \o <<"\n">> \o Spaces(ind)
       \o Stringify(Coalesce(Head(items), Null), ind)
       \o StringifyItems(Tail(items), ind, FALSE)

Stringify(val, ind) ==
  CASE val.k = "null" -> <<"n", "u", "l", "l">>
    [] val.k = "boolean" ->
         IF val.v THEN <<"t", "r", "u", "e">> ELSE <<"f", "a", "l", "s", "e">>
    [] val.k = "number" ->
         IF "f" \in DOMAIN val THEN NumText(val.v) \o <<".">> \o val.f
         ELSE NumText(val.v)
    [] val.k = "string" -> <<"\"">> \o val.v \o <<"\"">>
    [] val.k = "object" ->
         LET body == StringifyMembers(val.v, ind + 2, TRUE)
         IN  IF body = <<>> THEN <<"{", "}">>
             ELSE <<"{">> \o body \o <<"\n">> \o Spaces(ind) \o <<"}">>
    [] val.k = "array" ->
         LET body == StringifyItems(val.v, ind + 2, TRUE)
         IN  IF body = <<>> THEN <<"[", "]">>
             ELSE <<"[">> \o body \o <<"\n">> \o Spaces(ind) \o <<"]">>

JSONstringify(val) == Stringify(val, 0)

\* String.prototype.trim
RECURSIVE TrimEnd(_)
TrimEnd(s) == IF s # <<>> /\ s[Len(s)] \in Whitespace THEN TrimEnd(SubSeq(s, 1, Len(s) - 1)) ELSE s
Trim(s) == LET i == SkipWs(s, 1) IN TrimEnd(SubSeq(s, i, Len(s)))

(***************************************************************************)
(* Schemas: [type, hasProps, props, req, hasEnum, enum].  props is the     *)
(* sequence of <<name, schema>> in declaration order; req is the           *)
(* schema's required: absent, a boolean or an array of names.              *)
(***************************************************************************)
NoReq == [k |-> "absent", b |-> FALSE, names |-> <<>>]
ReqBool(b) == [k |-> "boolean", b |-> b, names |-> <<>>]
ReqNames(names) == [k |-> "array", b |-> FALSE, names |-> names]

Scalar(t) ==
  [type |-> t, hasProps |-> FALSE, props |-> <<>>, req |-> NoReq,
   hasEnum |-> FALSE, enum |-> <<>>]
Object(props, req) ==
  [type |-> "object", hasProps |-> TRUE, props |-> props, req |-> req,
   hasEnum |-> FALSE, enum |-> <<>>]

Name == <<"n", "a", "m", "e">>
Age == <<"a", "g", "e">>
Tags == <<"t", "a", "g", "s">>

SString == Scalar("string")
SPerson == Object(<< <<Name, Scalar("string")>>, <<Age, Scalar("number")>> >>, ReqNames(<<Name>>))
SNested == Object(<< <<Tags, Scalar("array")>> >>, NoReq)
SEmptyProps == Object(<<>>, NoReq)
SNoProps == [Scalar("object") EXCEPT !.req = NoReq]

Schemas == {SString, SPerson, SNested, SEmptyProps, SNoProps}

\* the schemas of the form's own specification: every leaf type, required
\* given as a boolean and as a list, a second level, an array at the root
Count == <<"c", "o", "u", "n", "t">>
Flag == <<"f", "l", "a", "g">>
Inner == <<"i", "n", "n", "e", "r">>

SAllRequired ==
  Object(<< <<Name, Scalar("string")>>, <<Age, Scalar("integer")>> >>, ReqBool(TRUE))
SCounts ==
  Object(<< <<Age, Scalar("number")>>, <<Count, Scalar("integer")>>,
            <<Flag, Scalar("boolean")>> >>, ReqNames(<<Age>>))
SInner == Object(<< <<Age, Scalar("number")>> >>, ReqNames(<<Age>>))
STwoLevel == Object(<< <<Name, Scalar("string")>>, <<Inner, SInner>> >>, NoReq)
SArray == Scalar("array")

FormSchemas == {SString, SPerson, SAllRequired, SCounts, STwoLevel, SArray}

RangeOf(seq) == {seq[i] : i \in 1..Len(seq)}

supportedTypes == {"string", "number", "integer", "boolean", "null"}

\* the declared properties are not looked at
isSimpleObjectShallow(s) == s.type \in supportedTypes \/ s.type = "object"

isSimpleObject(s) ==
  IF s.type \in supportedTypes THEN TRUE
  ELSE IF s.type # "object" THEN FALSE
  ELSE \A p \in RangeOf(s.props) : p[2].type \in supportedTypes

\* schema.type === "object" && (!schema.properties || no keys)
shouldUseJsonModeOf(s) ==
  s.type = "object" /\ (~s.hasProps \/ Len(s.props) = 0)

\* a boolean required is not looked at
isFieldRequiredListOnly(root, fieldPath) ==
  /\ root.req.k = "array"
  /\ Len(fieldPath) > 0
  /\ fieldPath[Len(fieldPath)] \in RangeOf(root.req.names)

\* isFieldRequired(fieldPath), a closure over the root schema
isFieldRequired(root, fieldPath) ==
  IF root.req.k = "boolean" THEN root.req.b
  ELSE IF root.req.k = "array" /\ Len(fieldPath) > 0
    THEN fieldPath[Len(fieldPath)] \in RangeOf(root.req.names)
  ELSE FALSE

(***************************************************************************)
(* The two utilities the component imports                                 *)
(***************************************************************************)
RECURSIVE generateDefaultValue(_)
generateDefaultValue(s) ==
  CASE s.type = "string" -> Str(<<>>)
    [] s.type \in {"number", "integer"} -> Num(0)
    [] s.type = "boolean" -> Bool(FALSE)
    [] s.type = "array" -> Arr(<<>>)
    [] s.type = "object" ->
         Obj([i \in 1..Len(s.props) |->
                <<s.props[i][1], generateDefaultValue(s.props[i][2])>>])
    [] OTHER -> Null

\* [ok |-> TRUE, v |-> the updated tree], or [ok |-> FALSE] when it throws:
\* a step of the path through a scalar or an array is an invalid path
RECURSIVE updateValueAtPath(_, _, _)
updateValueAtPath(root, path, newValue) ==
  IF path = <<>> THEN [ok |-> TRUE, v |-> newValue]
  ELSE IF root.k \in {"undefined", "null"}
    THEN updateValueAtPath(Obj(<<>>), path, newValue)
  ELSE IF root.k # "object" THEN [ok |-> FALSE, v |-> Undefined]
  ELSE
    LET sub == updateValueAtPath(GetMember(root.v, Head(path)), Tail(path), newValue)
    IN  IF ~sub.ok THEN sub
        ELSE [ok |-> TRUE, v |-> Obj(SetMember(root.v, Head(path), sub.v))]

(***************************************************************************)
(* Bounds and inputs                                                       *)
(***************************************************************************)
TickSteps == {100}
DebounceMs == 300
DefaultMaxDepth == 3
MaxDepths == {0, DefaultMaxDepth}

TCompact ==
  <<"{", "\"", "n", "a", "m", "e", "\"", ":", "\"", "x", "\"", ",",
    "\"", "a", "g", "e", "\"", ":", "1", "}">>
TNotJson == <<"n", "o", "t", " ", "j", "s", "o", "n">>
TBlank == <<" ", "\n">>
TArray == <<" ", "[", "1", "]">>
EditTexts == {TCompact, TNotJson, TBlank, TArray}

VPerson == Obj(<< <<Name, Str(<<"x">>)>>, <<Age, Num(1)>> >>)
OwnerValues == {Undefined, VPerson}

\* the values the form's own specification starts from
VAgeOnly == Obj(<< <<Age, Num(1)>> >>)
VTwoLevel == Obj(<< <<Name, Str(<<"x">>)>>, <<Inner, Obj(<< <<Age, Num(1)>> >>)>> >>)
FormValues == {Undefined, Str(<<"x">>), VPerson, VAgeOnly, VTwoLevel}
FormMaxDepths == {0, 1, DefaultMaxDepth}

\* the field paths requiredness is resolved for
FieldPaths ==
  {<<>>, <<Name>>, <<Age>>, <<Count>>, <<Flag>>, <<Inner>>, <<Inner, Age>>,
   <<Inner, Name>>}

StringInputs == {<<>>, <<"x">>}
NumberInputs == {<<>>, <<"1">>, <<"a", "b", "c">>}
IntegerInputs == NumberInputs \cup {<<"1", ".", "5">>}

\* what the user may enter into the control of a schema type
InputsOf(type) ==
  CASE type = "string" -> StringInputs
    [] type = "number" -> NumberInputs
    [] type = "integer" -> IntegerInputs
    [] OTHER -> {}

(***************************************************************************)
(* State                                                                   *)
(***************************************************************************)
VARIABLES
  schema,        \* prop
  value,         \* prop: the owner's value
  maxDepth,      \* prop
  mounted,       \* the instance's lifetime has not ended
  isJsonMode,    \* useState
  jsonError,     \* useState: NoError or the parser's message
  rawJsonValue,  \* useState: the text buffer
  timeoutRef,    \* useRef: the handle of the last timeout set, 0 if none
  timers,        \* the host's pending timeouts set by this instance, each
                 \* with the ms that remain before it may fire
  resyncPending, \* [value, schema] changed since the resync effect last ran
  emitted,       \* the onChange call made by the last step, or NoCall
  uncaught,      \* the last step's handler let an exception escape
  lastEdit,      \* the last text edit while a timer it set is pending: its
                 \* text and the ms since, up to DebounceMs; else NoEdit
  burstFires     \* timers set by edits that reached onChange since the
                 \* current burst of edits began

vars == <<schema, value, maxDepth, mounted, isJsonMode, jsonError, rawJsonValue,
          timeoutRef, timers, resyncPending, emitted, uncaught,
          lastEdit, burstFires>>

NoError == <<>>
NoCall == [src |-> "none", v |-> Undefined]
Call(src, v) == [src |-> src, v |-> v]
NoEdit == [text |-> <<>>, since |-> DebounceMs]

\* the buffer is regenerated without the schema's default
BufferTextNoDefault(s, v) == JSONstringify(Coalesce(v, Null))

\* the text the buffer is regenerated from: value ?? generateDefaultValue(schema)
BufferText(s, v) == JSONstringify(Coalesce(v, generateDefaultValue(s)))

isOnlyJSON == ~isSimpleObject(schema)
shouldUseJsonMode == shouldUseJsonModeOf(schema)

\* a controlled owner adopts what onChange hands it; the prop it passes back
\* is a new reference iff the value is a fresh object or a different primitive
NewReference(old, new) == new.k \in {"object", "array"} \/ new # old

EffectsPending ==
  mounted /\ (resyncPending \/ (shouldUseJsonMode /\ ~isJsonMode))

\* event handlers run on a mounted instance whose effects have been flushed
Ready == mounted /\ ~EffectsPending

Init ==
  /\ schema \in Schemas
  /\ value \in OwnerValues
  /\ maxDepth \in MaxDepths
  /\ mounted = TRUE
  /\ isJsonMode = ~isSimpleObject(schema)
  /\ jsonError = NoError
  /\ rawJsonValue = BufferText(schema, value)
  /\ timeoutRef = 0
  /\ timers = {}
  /\ resyncPending = TRUE
  /\ emitted = NoCall
  /\ uncaught = FALSE
  /\ lastEdit = NoEdit
  /\ burstFires = 0

(***************************************************************************)
(* Effects                                                                 *)
(***************************************************************************)
\* the mode-forcing effect left out
ForcedModeNever(should, mode) == mode

\* useEffect([value, schema]) then useEffect([shouldUseJsonMode, isJsonMode])
ForcedMode(should, mode) == IF should /\ ~mode THEN TRUE ELSE mode

\* the resync spares the buffer while a parse timer is pending
ResyncBufferUnlessPending(raw, s, v, pending) ==
  IF pending # {} THEN raw ELSE BufferText(s, v)

\* the body of useEffect([value, schema]): the buffer it sets, whatever the
\* buffer holds and whatever timeouts are pending
ResyncBuffer(raw, s, v, pending) == BufferText(s, v)

RunEffects ==
  /\ EffectsPending
  /\ rawJsonValue' = IF resyncPending
                       THEN ResyncBuffer(rawJsonValue, schema, value, timers)
                       ELSE rawJsonValue
  /\ isJsonMode' = ForcedMode(shouldUseJsonMode, isJsonMode)
  /\ resyncPending' = FALSE
  /\ emitted' = NoCall
  /\ uncaught' = FALSE
  /\ UNCHANGED <<schema, value, maxDepth, mounted, jsonError, timeoutRef, timers,
                 lastEdit, burstFires>>

(***************************************************************************)
(* The debounce timer                                                      *)
(***************************************************************************)
\* the pending timeout is not cleared
ClearTimeoutNone(pending, ref) == pending

\* if (timeoutRef.current) clearTimeout(timeoutRef.current)
ClearTimeout(pending, ref) ==
  IF ref # 0 THEN {t \in pending : t.id # ref} ELSE pending

\* the handle setTimeout returns: the least one that names no pending timeout
NewHandle(pending) ==
  CHOOSE i \in 1..(Cardinality(pending) + 1) :
    /\ i \notin {t.id : t \in pending}
    /\ \A j \in 1..(i - 1) : j \in {t.id : t \in pending}

\* the timeout is set without its delay
DebouncedNoDelay(pending, ref, jsonString, by) ==
  LET kept == ClearTimeout(pending, ref)
  IN  kept \cup {[id |-> NewHandle(kept), jsonString |-> jsonString,
                  remaining |-> 0, by |-> by]}

\* debouncedUpdateParent(jsonString): the host's timeouts after the call
Debounced(pending, ref, jsonString, by) ==
  LET kept == ClearTimeout(pending, ref)
  IN  kept \cup {[id |-> NewHandle(kept), jsonString |-> jsonString,
                  remaining |-> DebounceMs, by |-> by]}

\* timeoutRef.current after the call
DebouncedRef(pending, ref) == NewHandle(ClearTimeout(pending, ref))

\* lastEdit once the pending timeouts are those of pending
KeepEdit(e, pending) == IF \E t \in pending : t.by = "edit" THEN e ELSE NoEdit

\* the callback reports the parse failure
TimerCallbackSetsError(jsonString, err) ==
  LET r == JSONparse(jsonString)
  IN  IF r.ok THEN [call |-> TRUE, v |-> r.v, error |-> NoError]
      ELSE [call |-> FALSE, v |-> Undefined, error |-> ParseMessage(jsonString)]

\* the callback leaves the parse error alone when the parse succeeds
TimerCallbackKeepsError(jsonString, err) ==
  LET r == JSONparse(jsonString)
  IN  IF r.ok THEN [call |-> TRUE, v |-> r.v, error |-> err]
      ELSE [call |-> FALSE, v |-> Undefined, error |-> err]

\* the timeout's callback: what it hands to onChange and the jsonError it
\* leaves, given the one it finds
TimerCallback(jsonString, err) ==
  LET r == JSONparse(jsonString)
  IN  IF r.ok THEN [call |-> TRUE, v |-> r.v, error |-> NoError]
      ELSE [call |-> FALSE, v |-> Undefined, error |-> err]

TimerFire(t) ==
  /\ t \in timers
  /\ t.remaining = 0
  /\ ~EffectsPending
  /\ timers' = timers \ {t}
  /\ LET r == TimerCallback(t.jsonString, jsonError)
     IN  /\ value' = IF r.call THEN r.v ELSE value
         /\ resyncPending' = (resyncPending \/ (r.call /\ NewReference(value, r.v)))
         /\ emitted' = IF r.call THEN Call("timer", r.v) ELSE NoCall
         /\ jsonError' = IF mounted THEN r.error ELSE jsonError
         /\ burstFires' = IF r.call /\ t.by = "edit" THEN burstFires + 1 ELSE burstFires
  /\ lastEdit' = KeepEdit(lastEdit, timers')
  /\ uncaught' = FALSE
  /\ UNCHANGED <<schema, maxDepth, mounted, isJsonMode, rawJsonValue, timeoutRef>>

\* d ms pass: what remains of a delay
Elapse(remaining, d) == IF remaining > d THEN remaining - d ELSE 0

Tick ==
  /\ ~EffectsPending
  /\ \E d \in TickSteps :
       /\ timers' = {[t EXCEPT !.remaining = Elapse(t.remaining, d)] : t \in timers}
       /\ lastEdit' = [lastEdit EXCEPT !.since = DebounceMs - Elapse(DebounceMs - @, d)]
       /\ \/ timers' # timers
          \/ lastEdit' # lastEdit
  /\ emitted' = NoCall
  /\ uncaught' = FALSE
  /\ UNCHANGED <<schema, value, maxDepth, mounted, isJsonMode, jsonError,
                 rawJsonValue, timeoutRef, resyncPending, burstFires>>

(***************************************************************************)
(* Raw-text mode                                                           *)
(***************************************************************************)
\* JsonEditor onChange in JSON mode
TextEdit(newValue) ==
  /\ Ready
  /\ isJsonMode
  /\ rawJsonValue' = newValue
  /\ timers' = Debounced(timers, timeoutRef, newValue, "edit")
  /\ timeoutRef' = DebouncedRef(timers, timeoutRef)
  /\ lastEdit' = [text |-> newValue, since |-> 0]
  /\ burstFires' = IF lastEdit.since < DebounceMs THEN burstFires ELSE 0
  /\ emitted' = NoCall
  /\ uncaught' = FALSE
  /\ UNCHANGED <<schema, value, maxDepth, mounted, isJsonMode, jsonError,
                 resyncPending>>

\* formatJson without the blank-buffer return
FormatResultNoBlankCheck(raw, err) ==
  LET jsonStr == Trim(raw)
      r == JSONparse(jsonStr)
  IN  IF r.ok
        THEN [text |-> JSONstringify(r.v), error |-> NoError, schedule |-> TRUE]
      ELSE [text |-> raw, error |-> ParseMessage(jsonStr), schedule |-> FALSE]

\* formatJson reporting the fallback text, not the parser's message
FormatResultFixedMessage(raw, err) ==
  LET jsonStr == Trim(raw)
      r == JSONparse(jsonStr)
  IN  IF jsonStr = <<>> THEN [text |-> raw, error |-> err, schedule |-> FALSE]
      ELSE IF r.ok
        THEN [text |-> JSONstringify(r.v), error |-> NoError, schedule |-> TRUE]
      ELSE [text |-> raw, error |-> <<"Invalid JSON">>, schedule |-> FALSE]

\* formatJson: the buffer and the jsonError it leaves, given the ones it
\* finds, and whether it calls debouncedUpdateParent with the new buffer
FormatResult(raw, err) ==
  LET jsonStr == Trim(raw)
      r == JSONparse(jsonStr)
  IN  IF jsonStr = <<>> THEN [text |-> raw, error |-> err, schedule |-> FALSE]
      ELSE IF r.ok
        THEN [text |-> JSONstringify(r.v), error |-> NoError, schedule |-> TRUE]
      ELSE [text |-> raw, error |-> ParseMessage(jsonStr), schedule |-> FALSE]

\* the Format JSON button, shown iff isJsonMode
FormatJson ==
  /\ Ready
  /\ isJsonMode
  /\ LET f == FormatResult(rawJsonValue, jsonError)
     IN  /\ rawJsonValue' = f.text
         /\ jsonError' = f.error
         /\ timers' = IF f.schedule
                         THEN Debounced(timers, timeoutRef, f.text, "format")
                         ELSE timers
         /\ timeoutRef' = IF f.schedule
                             THEN DebouncedRef(timers, timeoutRef)
                             ELSE timeoutRef
  /\ lastEdit' = KeepEdit(lastEdit, timers')
  /\ emitted' = NoCall
  /\ uncaught' = FALSE
  /\ UNCHANGED <<schema, value, maxDepth, mounted, isJsonMode, resyncPending,
                 burstFires>>

(***************************************************************************)
(* The mode toggle, shown iff !isOnlyJSON                                  *)
(***************************************************************************)
\* the switch made without the try/catch around the parse deciding it
SwitchResultNoCheck(raw) == [ok |-> TRUE, v |-> JSONparse(raw).v, msg |-> NoError]

\* handleSwitchToFormMode, isJsonMode branch
SwitchResult(raw) ==
  LET r == JSONparse(raw)
  IN  IF r.ok THEN [ok |-> TRUE, v |-> r.v, msg |-> NoError]
      ELSE [ok |-> FALSE, v |-> Undefined, msg |-> ParseMessage(raw)]

SwitchToForm ==
  /\ Ready
  /\ ~isOnlyJSON
  /\ isJsonMode
  /\ LET r == SwitchResult(rawJsonValue)
     IN  IF r.ok
           THEN /\ value' = r.v
                /\ resyncPending' = NewReference(value, r.v)
                /\ emitted' = Call("switch", r.v)
                /\ isJsonMode' = FALSE
                /\ UNCHANGED jsonError
           ELSE /\ jsonError' = r.msg
                /\ emitted' = NoCall
                /\ UNCHANGED <<value, resyncPending, isJsonMode>>
  /\ uncaught' = FALSE
  /\ UNCHANGED <<schema, maxDepth, mounted, rawJsonValue, timeoutRef, timers,
                 lastEdit, burstFires>>

\* handleSwitchToFormMode, else branch
SwitchToJson ==
  /\ Ready
  /\ ~isOnlyJSON
  /\ ~isJsonMode
  /\ rawJsonValue' = BufferText(schema, value)
  /\ isJsonMode' = TRUE
  /\ emitted' = NoCall
  /\ uncaught' = FALSE
  /\ UNCHANGED <<schema, value, maxDepth, mounted, jsonError, timeoutRef, timers,
                 resyncPending, lastEdit, burstFires>>

(***************************************************************************)
(* Form mode                                                               *)
(***************************************************************************)
\* typeof value !== "object" || value === null || Object.keys(value).length === 0
NotAFilledObject(v) ==
  \/ v.k \notin {"object", "array"}
  \/ Len(v.v) = 0

\* the read-only summary replaces the fields
SummaryShown ==
  /\ ~isJsonMode
  /\ schema.type = "object"
  /\ NotAFilledObject(value)
  /\ rawJsonValue # <<>>
  /\ rawJsonValue # <<"{", "}">>

FormShown == ~isJsonMode /\ ~SummaryShown

\* (currentValue || {})[fieldName]
FieldValue(currentValue, fieldName) ==
  IF currentValue.k = "object" THEN GetMember(currentValue.v, fieldName) ELSE Undefined

\* renderFieldInput: the control a schema node gets, none for other types
renderFieldInput(propSchema, currentValue, path, fieldRequired) ==
  IF propSchema.type \in {"string", "number", "integer", "boolean"}
    THEN {[kind |-> "leaf", s |-> propSchema, current |-> currentValue,
           path |-> path, required |-> fieldRequired]}
    ELSE {}

\* renderFormFields(schema, value): the controls of the form, at depth 0
renderFormFields(root, currentValue, depthLimit) ==
  IF 0 >= depthLimit /\ root.type \in {"object", "array"}
    THEN {[kind |-> "editor", s |-> root, current |-> currentValue,
           path |-> <<>>, required |-> FALSE]}
  ELSE IF root.type = "object" /\ root.hasProps
    THEN UNION {renderFieldInput(root.props[i][2],
                                 FieldValue(currentValue, root.props[i][1]),
                                 <<root.props[i][1]>>,
                                 isFieldRequired(root, <<root.props[i][1]>>))
                  : i \in 1..Len(root.props)}
  ELSE renderFieldInput(root, currentValue, <<>>, isFieldRequired(root, <<>>))

Controls == IF FormShown THEN renderFormFields(schema, value, maxDepth) ELSE {}

\* the digits of a fraction without its trailing zeros
RECURSIVE StripZeros(_)
StripZeros(f) ==
  IF f # <<>> /\ f[Len(f)] = "0" THEN StripZeros(SubSeq(f, 1, Len(f) - 1)) ELSE f

\* Number(val) over blank text and unsigned decimal numerals: [nan |-> TRUE]
\* for text that is not a number, else the integer part n and the fraction f
ToNumber(text) ==
  LET t == Trim(text)
      dots == {i \in 1..Len(t) : t[i] = "."}
      dot == IF dots = {} THEN Len(t) + 1 ELSE CHOOSE i \in dots : \A j \in dots : i <= j
      int == SubSeq(t, 1, dot - 1)
      frac == SubSeq(t, dot + 1, Len(t))
      NaN == [nan |-> TRUE, n |-> 0, f |-> <<>>]
  IN  IF t = <<>> THEN [nan |-> FALSE, n |-> 0, f |-> <<>>]
      ELSE IF int = <<>> /\ frac = <<>> THEN NaN
      ELSE IF \A i \in 1..Len(t) : i # dot => t[i] \in DigitSet
        THEN [nan |-> FALSE, n |-> ScanDigits(int, 1, 0).v.v, f |-> StripZeros(frac)]
      ELSE NaN

\* the JSON number Number(val) is, and Number.isInteger of it
NumberOf(num) == IF num.f = <<>> THEN Num(num.n) ELSE Frac(num.n, num.f)
IsInteger(num) == num.f = <<>>

\* the onChange of a text or select control (string), of a number control
\* and of an integer control
LeafCommit(c, val) ==
  IF val = <<>> /\ ~c.required THEN [commit |-> TRUE, v |-> Undefined]
  ELSE IF c.s.type = "string" THEN [commit |-> TRUE, v |-> Str(val)]
  ELSE LET num == ToNumber(val)
       IN  IF ~num.nan /\ (c.s.type = "integer" => IsInteger(num))
             THEN [commit |-> TRUE, v |-> NumberOf(num)]
             ELSE [commit |-> FALSE, v |-> Undefined]

\* handleFieldChange without its try/catch
handleFieldChangeNoCatch(currentValue, path, fieldValue) ==
  IF path = <<>> THEN [v |-> fieldValue, same |-> FALSE, threw |-> FALSE]
  ELSE
    LET r == updateValueAtPath(currentValue, path, fieldValue)
    IN  IF r.ok THEN [v |-> r.v, same |-> FALSE, threw |-> FALSE]
        ELSE [v |-> Undefined, same |-> FALSE, threw |-> TRUE]

\* handleFieldChange(path, fieldValue): what reaches onChange.  same: the
\* owner's own value is handed back (the catch branch)
handleFieldChange(currentValue, path, fieldValue) ==
  IF path = <<>> THEN [v |-> fieldValue, same |-> FALSE, threw |-> FALSE]
  ELSE
    LET r == updateValueAtPath(currentValue, path, fieldValue)
    IN  IF r.ok THEN [v |-> r.v, same |-> FALSE, threw |-> FALSE]
        ELSE [v |-> currentValue, same |-> TRUE, threw |-> FALSE]

\* the owner after handleFieldChange: value, resyncPending, emitted, uncaught
Committed(r) ==
  /\ uncaught' = r.threw
  /\ value' = IF r.threw THEN value ELSE r.v
  /\ resyncPending' = (~r.threw /\ ~r.same /\ NewReference(value, r.v))
  /\ emitted' = IF r.threw THEN NoCall ELSE Call("field", r.v)

\* the onChange of a string, number or integer control with e.target.value
LeafEvent(c, val) ==
  /\ LET lc == LeafCommit(c, val)
         r == handleFieldChange(value, c.path, lc.v)
     IN  IF lc.commit
           THEN /\ Committed(r)
           ELSE /\ uncaught' = FALSE
                /\ emitted' = NoCall
                /\ UNCHANGED <<value, resyncPending>>
  /\ UNCHANGED <<schema, maxDepth, mounted, isJsonMode, jsonError, rawJsonValue,
                 timeoutRef, timers, lastEdit, burstFires>>

\* an input event on a string, number or integer control
FieldInput(c, val) ==
  /\ Ready
  /\ c \in Controls
  /\ c.kind = "leaf"
  /\ val \in InputsOf(c.s.type)
  /\ LeafEvent(c, val)

\* handleFieldChange(path, e.target.checked)
CheckboxEvent(c, checked) ==
  /\ Committed(handleFieldChange(value, c.path, Bool(checked)))
  /\ UNCHANGED <<schema, maxDepth, mounted, isJsonMode, jsonError, rawJsonValue,
                 timeoutRef, timers, lastEdit, burstFires>>

\* a change event of a checkbox
CheckboxInput(c, checked) ==
  /\ Ready
  /\ c \in Controls
  /\ c.kind = "leaf"
  /\ c.s.type = "boolean"
  /\ CheckboxEvent(c, checked)

\* String(v) of a scalar, as an input shows it
ToText(v) ==
  CASE v.k = "string" -> v.v
    [] v.k = "number" -> Stringify(v, 0)
    [] v.k = "boolean" -> Stringify(v, 0)
    [] OTHER -> <<>>

\* the value attribute of a text, select or number control:
\* currentValue ?? "" and currentValue?.toString() ?? ""
DisplayText(c) == ToText(Coalesce(c.current, Str(<<>>)))

\* the checked attribute of a checkbox: currentValue ?? false, as a boolean
DisplayChecked(c) ==
  CASE c.current.k = "boolean" -> c.current.v
    [] c.current.k = "string" -> c.current.v # <<>>
    [] c.current.k = "number" -> c.current # Num(0)
    [] OTHER -> FALSE

\* a change event that carries what the control shows: the field is
\* committed untouched.  The casts of renderFieldInput take the current
\* value for a scalar
Recommit(c) ==
  /\ Ready
  /\ c \in Controls
  /\ c.kind = "leaf"
  /\ c.current.k \notin {"object", "array"}
  /\ IF c.s.type = "boolean" THEN CheckboxEvent(c, DisplayChecked(c))
     ELSE LeafEvent(c, DisplayText(c))

\* the onChange of the JsonEditor rendered when the depth limit is reached
NestedEdit(c, newValue) ==
  /\ Ready
  /\ c \in Controls
  /\ c.kind = "editor"
  /\ LET p == JSONparse(newValue)
         r == handleFieldChange(value, c.path, p.v)
     IN  IF p.ok
           THEN /\ Committed(r)
                /\ jsonError' = IF r.threw THEN jsonError ELSE NoError
           ELSE /\ jsonError' = ParseMessage(newValue)
                /\ uncaught' = FALSE
                /\ emitted' = NoCall
                /\ UNCHANGED <<value, resyncPending>>
  /\ UNCHANGED <<schema, maxDepth, mounted, isJsonMode, rawJsonValue, timeoutRef,
                 timers, lastEdit, burstFires>>

(***************************************************************************)
(* The owner                                                               *)
(***************************************************************************)
\* the caller re-renders the instance with a value that is a new reference
\* for the effect's dependency check (Object.is): another value, or an
\* object or array built anew, be it equal to the current one
OwnerSetValue(v) ==
  /\ Ready
  /\ NewReference(value, v)
  /\ value' = v
  /\ resyncPending' = TRUE
  /\ emitted' = NoCall
  /\ uncaught' = FALSE
  /\ UNCHANGED <<schema, maxDepth, mounted, isJsonMode, jsonError, rawJsonValue,
                 timeoutRef, timers, lastEdit, burstFires>>

\* the caller re-renders the instance with a schema object built anew, be
\* it equal to the current one: useState keeps isJsonMode, isOnlyJSON is
\* recomputed, the effect's dependency check (Object.is) sees a new reference
OwnerSetSchema(s) ==
  /\ Ready
  /\ schema' = s
  /\ resyncPending' = TRUE
  /\ emitted' = NoCall
  /\ uncaught' = FALSE
  /\ UNCHANGED <<value, maxDepth, mounted, isJsonMode, jsonError, rawJsonValue,
                 timeoutRef, timers, lastEdit, burstFires>>

\* the instance is unmounted; the component registers no cleanup
Unmount ==
  /\ Ready
  /\ mounted' = FALSE
  /\ emitted' = NoCall
  /\ uncaught' = FALSE
  /\ UNCHANGED <<schema, value, maxDepth, isJsonMode, jsonError, rawJsonValue,
                 timeoutRef, timers, resyncPending, lastEdit,
                 burstFires>>

Next ==
  \/ RunEffects
  \/ \E t \in timers : TimerFire(t)
  \/ Tick
  \/ \E newValue \in EditTexts : TextEdit(newValue)
  \/ FormatJson
  \/ SwitchToForm
  \/ SwitchToJson
  \/ \E c \in Controls, val \in StringInputs \cup NumberInputs : FieldInput(c, val)
  \/ \E c \in Controls, newValue \in EditTexts : NestedEdit(c, newValue)
  \/ \E v \in OwnerValues : OwnerSetValue(v)
  \/ \E s \in Schemas : OwnerSetSchema(s)
  \/ Unmount

Spec == Init /\ [][Next]_vars

(***************************************************************************)
(* The raw-text pipeline under fair scheduling: one instance over a schema *)
(* with a form and a schema without, every handler acting.                 *)
(***************************************************************************)
LiveSchemas == {SPerson, SNested}

LiveInit == Init /\ schema \in LiveSchemas

LiveNext ==
  \/ RunEffects
  \/ \E t \in timers : TimerFire(t)
  \/ Tick
  \/ \E newValue \in EditTexts : TextEdit(newValue)
  \/ FormatJson
  \/ SwitchToForm
  \/ SwitchToJson
  \/ \E c \in Controls, val \in StringInputs \cup NumberInputs : FieldInput(c, val)
  \/ \E c \in Controls, newValue \in EditTexts : NestedEdit(c, newValue)
  \/ \E v \in OwnerValues : OwnerSetValue(v)
  \/ \E s \in LiveSchemas : OwnerSetSchema(s)
  \/ Unmount

\* the guard of TimerFire: some timeout is due and may run
TimerDue == ~EffectsPending /\ \E t \in timers : t.remaining = 0

\* Time passes and the host runs a timeout that is due, however often other
\* events come in between; React runs the effects of a render before the
\* next event.  The second conjunct is strong fairness of the timer step,
\* SF_vars(\E t \in timers : TimerFire(t)), with its enabling condition
\* written out as TimerDue.
Fairness ==
  /\ SF_vars(Tick)
  /\ (<>[]~TimerDue) \/ ([]<><<\E t \in timers : TimerFire(t)>>_vars)
  /\ WF_vars(RunEffects)

FairSpec == LiveInit /\ [][LiveNext]_vars /\ Fairness

(***************************************************************************)
(* The form on its own: the instance is constructed over the form's        *)
(* schemas, values and depth limits, and only the handlers of the          *)
(* structured view, the effects and the owner's schema act.                *)
(***************************************************************************)
FormInit ==
  /\ schema \in FormSchemas
  /\ value \in FormValues
  /\ maxDepth \in FormMaxDepths
  /\ mounted = TRUE
  /\ isJsonMode = ~isSimpleObject(schema)
  /\ jsonError = NoError
  /\ rawJsonValue = BufferText(schema, value)
  /\ timeoutRef = 0
  /\ timers = {}
  /\ resyncPending = TRUE
  /\ emitted = NoCall
  /\ uncaught = FALSE
  /\ lastEdit = NoEdit
  /\ burstFires = 0

FormNext ==
  \/ RunEffects
  \/ \E c \in Controls, val \in StringInputs \cup IntegerInputs : FieldInput(c, val)
  \/ \E c \in Controls, checked \in BOOLEAN : CheckboxInput(c, checked)
  \/ \E c \in Controls : Recommit(c)
  \/ \E c \in Controls, newValue \in EditTexts : NestedEdit(c, newValue)
  \/ \E s \in FormSchemas : OwnerSetSchema(s)

FormSpec == FormInit /\ [][FormNext]_vars

(***************************************************************************)
(* Properties                                                              *)
(***************************************************************************)

\* C1: a user toggle from raw-text to structured mode parses the buffer; on
\* success the parsed value goes to onChange and the mode becomes
\* structured; on failure the parse error is set, the mode stays raw-text
\* and onChange is not called.
C1_SwitchParsesBuffer ==
  [][SwitchToForm =>
       LET r == JSONparse(rawJsonValue)
       IN  IF r.ok
             THEN /\ emitted' = Call("switch", r.v)
                  /\ value' = r.v
                  /\ ~isJsonMode'
             ELSE /\ jsonError' = ParseMessage(rawJsonValue)
                  /\ jsonError' # NoError
                  /\ isJsonMode'
                  /\ emitted' = NoCall
                  /\ value' = value]_vars

C1_Witness ==
  /\ emitted.src = "switch"
  /\ emitted.v = value
  /\ ~isJsonMode

\* C2: a timer set by a text edit that reaches onChange hands over the parse
\* of the text of the last edit, no earlier than DebounceMs after that edit,
\* and is the only one of its burst of edits to do so.
C2_Debounce ==
  [][\A t \in timers :
       (TimerFire(t) /\ t.by = "edit" /\ emitted'.src = "timer") =>
         /\ emitted'.v = JSONparse(lastEdit.text).v
         /\ JSONparse(lastEdit.text).ok
         /\ lastEdit.since >= DebounceMs
         /\ burstFires' <= 1]_vars

C2_Witness ==
  /\ emitted.src = "timer"
  /\ burstFires = 1
  /\ timers = {}

\* C3: at most one parse timer is pending in every reachable state.
C3_OneTimer == Cardinality(timers) <= 1

C3_Witness ==
  /\ \E t \in timers : t.by = "format" /\ t.remaining = DebounceMs
  /\ Cardinality(timers) = 1
  /\ burstFires = 1

\* C4: a text edit stores the new text verbatim and leaves the parse error
\* and the owner alone; a timer that fires while the buffer is not valid
\* JSON calls no onChange and leaves the owner's value and the parse error
\* as they were.
C4_TypingSetsNoError ==
  [][/\ \A x \in EditTexts :
          TextEdit(x) => /\ rawJsonValue' = x
                         /\ jsonError' = jsonError
                         /\ emitted' = NoCall
                         /\ value' = value
     /\ \A t \in timers :
          (TimerFire(t) /\ ~JSONparse(rawJsonValue).ok) =>
             /\ emitted' = NoCall
             /\ value' = value
             /\ jsonError' = jsonError]_vars

\* the buffer is invalid and the timer its edit set is gone: it has fired
C4_Witness ==
  /\ mounted
  /\ isJsonMode
  /\ ~JSONparse(rawJsonValue).ok
  /\ timeoutRef # 0
  /\ timers = {}
  /\ jsonError = NoError

\* C5: on a mounted instance the parse error is absent right after a
\* debounced parse that succeeds, after a format that succeeds and after a
\* raw-text to structured toggle whose parse succeeds.
C5_ClearedOnSuccess ==
  [][(/\ mounted
      /\ \/ \E t \in timers : TimerFire(t) /\ JSONparse(t.jsonString).ok
         \/ FormatJson /\ Trim(rawJsonValue) # <<>> /\ JSONparse(Trim(rawJsonValue)).ok
         \/ SwitchToForm /\ JSONparse(rawJsonValue).ok)
       => jsonError' = NoError]_vars

\* C6: format on a buffer whose trimmed content is valid JSON replaces the
\* buffer by the 2-space serialization of the parsed value, clears the parse
\* error, calls no onChange and leaves exactly one pending timer, set for the
\* new buffer with the whole delay ahead; format on a blank buffer changes
\* nothing.
C6_FormatValid ==
  [][FormatJson =>
       LET jsonStr == Trim(rawJsonValue)
           r == JSONparse(jsonStr)
       IN  IF jsonStr = <<>>
             THEN UNCHANGED <<rawJsonValue, jsonError, timers, timeoutRef, value,
                              isJsonMode>>
                  /\ emitted' = NoCall
           ELSE r.ok =>
                  /\ rawJsonValue' = JSONstringify(r.v)
                  /\ jsonError' = NoError
                  /\ emitted' = NoCall
                  /\ value' = value
                  /\ Cardinality(timers') = 1
                  /\ \A t \in timers' : /\ t.id = timeoutRef'
                                        /\ t.remaining = DebounceMs
                                        /\ JSONparse(t.jsonString) = JSONparse(rawJsonValue')
                                        /\ JSONparse(t.jsonString).v = r.v]_vars

C6_Witness ==
  /\ \E t \in timers : /\ t.by = "format"
                       /\ t.remaining = DebounceMs
                       /\ t.jsonString = rawJsonValue
  /\ rawJsonValue = JSONstringify(Arr(<<Num(1)>>))
  /\ jsonError = NoError

\* C7: format on a non-blank buffer that is not valid JSON sets the parse
\* error to the parser's message and changes nothing else.
C7_FormatInvalid ==
  [][(FormatJson /\ Trim(rawJsonValue) # <<>> /\ ~JSONparse(Trim(rawJsonValue)).ok) =>
       /\ jsonError' = ParseMessage(Trim(rawJsonValue))
       /\ jsonError' # NoError
       /\ emitted' = NoCall
       /\ UNCHANGED <<rawJsonValue, isJsonMode, timers, timeoutRef, value, schema>>]_vars

C7_Witness ==
  /\ isOnlyJSON
  /\ isJsonMode
  /\ rawJsonValue = TNotJson
  /\ jsonError = ParseMessage(TNotJson)
  /\ \E t \in timers : t.by = "edit"

\* C8: in every reachable state of a mounted instance whose effects have
\* run, a schema that is not simple (neither a scalar type nor an object
\* whose declared properties are all scalars) has the mode raw-text.
C8_NonSimpleIsRaw ==
  (/\ Ready
   /\ schema.type \notin {"string", "number", "integer", "boolean", "null"}
   /\ \/ schema.type # "object"
      \/ \E i \in 1..Len(schema.props) :
           schema.props[i][2].type \notin {"string", "number", "integer", "boolean", "null"})
    => isJsonMode

\* C9: for an object schema with no declared properties, whenever the mode of
\* a mounted instance is structured the next step sets it back to raw-text.
C9_EmptyObjectForcedRaw ==
  [][(/\ mounted
      /\ schema.type = "object"
      /\ (~schema.hasProps \/ schema.props = <<>>)
      /\ ~isJsonMode)
       => isJsonMode']_vars

\* the user has just toggled to structured mode on such a schema
C9_Witness ==
  /\ schema.type = "object"
  /\ schema.props = <<>>
  /\ ~isJsonMode
  /\ emitted.src = "switch"

\* C10: a leaf commit with an empty path forwards the value itself; with a
\* non-empty path it forwards updateValueAtPath(value, path, v); when that
\* throws, the owner's value is forwarded again unchanged.  No parse error
\* is set and no exception escapes.
C10_Commit ==
  [][\A c \in Controls, val \in StringInputs \cup NumberInputs :
       (FieldInput(c, val) /\ LeafCommit(c, val).commit) =>
         LET fv == LeafCommit(c, val).v
             u == updateValueAtPath(value, c.path, fv)
         IN  /\ ~uncaught'
             /\ jsonError' = jsonError
             /\ IF c.path = <<>> THEN emitted' = Call("field", fv) /\ value' = fv
                ELSE IF u.ok THEN emitted' = Call("field", u.v) /\ value' = u.v
                ELSE emitted' = Call("field", value) /\ value' = value]_vars

\* the owner holds an array under an object schema and a field commit has
\* handed it back
C10_Witness ==
  /\ FormShown
  /\ schema = SPerson
  /\ value.k = "array"
  /\ emitted = Call("field", value)
  /\ ~uncaught

\* C11: on a number or integer control, empty input commits undefined when
\* the field is not required and is a no-op when it is required (no
\* onChange, the owner's value unchanged); input that is not a number, and on
\* an integer control input that is not integral, is dropped: no onChange,
\* no parse error, the owner's value stands.
C11_NumberField ==
  [][\A c \in Controls, val \in IntegerInputs :
       (FieldInput(c, val) /\ c.s.type \in {"number", "integer"}) =>
         IF val = <<>>
           THEN IF c.required
                  THEN emitted' = NoCall /\ value' = value
                  ELSE emitted' = Call("field", handleFieldChange(value, c.path, Undefined).v)
         ELSE (ToNumber(val).nan \/ (c.s.type = "integer" /\ ~IsInteger(ToNumber(val)))) =>
                /\ emitted' = NoCall
                /\ value' = value
                /\ jsonError' = jsonError]_vars

\* C12: in the structured view an object or array schema met at a depth that
\* has reached maxDepth is shown as a nested raw-text editor bound to its
\* path: the root itself when maxDepth is 0, and with maxDepth = 1 every
\* object or array property of the root, so that the second level of a
\* two-level schema gets an editor whose commits go to that property's path.
C12_DepthLimit ==
  (Ready /\ FormShown /\ schema.type = "object" /\ schema.hasProps) =>
    /\ maxDepth <= 0 =>
         \E c \in Controls : c.kind = "editor" /\ c.path = <<>>
    /\ maxDepth = 1 =>
         \A i \in 1..Len(schema.props) :
           schema.props[i][2].type \in {"object", "array"} =>
             \E c \in Controls : /\ c.kind = "editor"
                                 /\ c.path = <<schema.props[i][1]>>
                                 /\ c.s = schema.props[i][2]

\* C13: committing untouched what a leaf control of the structured view
\* shows, through that control's change handler, leaves the owner with a
\* value deep-equal to the one that was rendered.  Deep equality compares
\* objects as sets of members, a member that is undefined counting as absent.
C13_RoundTrip ==
  [][LET RECURSIVE DeepEqual(_, _)
         DeepEqual(a, b) ==
           IF a.k # b.k THEN FALSE
           ELSE IF a.k = "object"
             THEN LET keys(o) ==
                        {o.v[i][1] :
                           i \in {j \in 1..Len(o.v) : o.v[j][2].k # "undefined"}}
                  IN  /\ keys(a) = keys(b)
                      /\ \A key \in keys(a) :
                           DeepEqual(GetMember(a.v, key), GetMember(b.v, key))
           ELSE IF a.k = "array"
             THEN /\ Len(a.v) = Len(b.v)
                  /\ \A i \in 1..Len(a.v) : DeepEqual(a.v[i], b.v[i])
           ELSE a = b
     IN  \A c \in Controls : Recommit(c) => DeepEqual(value', value)]_vars

\* C14: once the instance is unmounted no parse timer it had set fires: no
\* step of an unmounted instance calls onChange or changes the owner's value.
C14_ReleasedOnTeardown ==
  [][~mounted => /\ \A t \in timers : ~TimerFire(t)
                 /\ emitted' = NoCall
                 /\ value' = value]_vars

\* C15: on a mounted instance every change of the owner's value or of the
\* schema, a re-render with an equal one in a new object included, is
\* followed, before anything else happens, by the effect that
\* overwrites the text buffer with the 2-space serialization of the value
\* (of the schema's default when the value is absent), in either mode and
\* whatever edit or parse timer is pending.
C15_Resync ==
  [][/\ (mounted' /\ (value' # value \/ schema' # schema)) => resyncPending'
     /\ \A v \in OwnerValues : OwnerSetValue(v) => resyncPending'
     /\ \A s \in Schemas : OwnerSetSchema(s) => resyncPending'
     /\ (mounted /\ resyncPending) =>
          /\ rawJsonValue' =
               JSONstringify(IF value.k \in {"undefined", "null"}
                               THEN generateDefaultValue(schema) ELSE value)
          /\ ~resyncPending'
          /\ UNCHANGED <<value, schema, timers>>]_vars

\* the owner has replaced the value while an edit that is not valid JSON
\* waited for its timer: the buffer holds the owner's value, the edit is gone
C15_Witness ==
  /\ mounted
  /\ isJsonMode
  /\ ~resyncPending
  /\ value = VPerson
  /\ rawJsonValue = JSONstringify(VPerson)
  /\ \E t \in timers : t.by = "edit" /\ t.jsonString = TNotJson
  /\ lastEdit.text = TNotJson

\* C16: a user toggle from structured to raw-text mode has no failure
\* branch: the mode becomes raw-text, the buffer becomes the 2-space
\* serialization of the owner's value (of the schema's default when the
\* value is absent), onChange is not called, and the owner's value and the
\* parse error stay as they were.
C16_SwitchToJson ==
  [][SwitchToJson =>
       /\ isJsonMode'
       /\ rawJsonValue' =
            JSONstringify(IF value.k \in {"undefined", "null"}
                            THEN generateDefaultValue(schema) ELSE value)
       /\ emitted' = NoCall
       /\ ~uncaught'
       /\ UNCHANGED <<value, jsonError, timers>>]_vars

\* raw-text mode over a value that only a field commit produces (the name
\* cleared in the form), the buffer regenerated from it
C16_Witness ==
  /\ isJsonMode
  /\ ~isOnlyJSON
  /\ schema = SPerson
  /\ value = Obj(<< <<Name, Str(<<>>)>>, <<Age, Num(1)>> >>)
  /\ rawJsonValue = JSONstringify(value)
  /\ emitted = NoCall
  /\ timeoutRef = 0

\* C17: a field at path p is required iff the root schema's required is the
\* boolean true or is a list that contains the last segment of p; the
\* required list of a nested object is not consulted; every leaf control of
\* the structured view carries that flag.  Under {type: object, required:
\* [name], properties: {name: string, age: number}} name is required and age
\* is not.
C17_Required ==
  LET Expected(p) ==
        \/ schema.req.k = "boolean" /\ schema.req.b
        \/ /\ schema.req.k = "array"
           /\ p # <<>>
           /\ \E i \in 1..Len(schema.req.names) : schema.req.names[i] = p[Len(p)]
  IN  /\ \A p \in FieldPaths : isFieldRequired(schema, p) <=> Expected(p)
      /\ \A c \in Controls : c.kind = "leaf" => (c.required <=> Expected(c.path))
      /\ schema = SPerson =>
           isFieldRequired(schema, <<Name>>) /\ ~isFieldRequired(schema, <<Age>>)
      /\ schema = STwoLevel =>
           /\ RangeOf(SInner.req.names) = {Age}
           /\ ~isFieldRequired(schema, <<Inner, Age>>)

\* the form of the person schema is on screen, its name control required and
\* its age control not
C17_Witness ==
  /\ Ready
  /\ FormShown
  /\ schema = SPerson
  /\ \E c \in Controls : c.path = <<Name>> /\ c.required
  /\ \E c \in Controls : c.path = <<Age>> /\ ~c.required

\* C18: isSimpleObject(schema) is true iff the schema's type is string,
\* number, integer, boolean or null, or it is object and every declared
\* property has one of these types: true for every scalar schema, false for
\* an object schema that declares an object or array property, false for an
\* array at the root.
C18_StructuredCapable ==
  LET scalars == {"string", "number", "integer", "boolean", "null"}
      Expected(s) ==
        \/ s.type \in scalars
        \/ /\ s.type = "object"
           /\ \A i \in 1..Len(s.props) : s.props[i][2].type \in scalars
  IN  /\ isSimpleObject(schema) <=> Expected(schema)
      /\ isOnlyJSON <=> ~Expected(schema)
      /\ \A t \in scalars : isSimpleObject(Scalar(t))
      /\ \A s \in Schemas \cup FormSchemas : isSimpleObject(s) <=> Expected(s)
      /\ ~isSimpleObject(STwoLevel)
      /\ ~isSimpleObject(SNested)
      /\ ~isSimpleObject(SArray)

\* an instance mounted with the two-level schema: not capable, so raw-text
\* from the start and without the toggle
C18_Witness ==
  /\ Ready
  /\ schema = STwoLevel
  /\ isOnlyJSON
  /\ isJsonMode
  /\ value = VTwoLevel

\* C19: a value that a parse timer of a mounted instance hands to onChange
\* is the parse of the text buffer as it stands when the timer fires: text
\* that an owner-driven resync or a later structured edit has replaced is
\* never delivered.
C19_NoStaleDelivery ==
  [][\A t \in timers :
       (mounted /\ TimerFire(t) /\ emitted'.src = "timer") =>
          /\ JSONparse(rawJsonValue).ok
          /\ emitted'.v = JSONparse(rawJsonValue).v]_vars

\* C20: when a text edit of a mounted instance has left valid JSON waiting
\* for its timer, then, unless a further edit or format sets a new timer or
\* the instance is unmounted, the owner eventually receives the parse of
\* that text through onChange, with the parse error absent, whatever error
\* was set before.
C20_EventuallyDelivered ==
  \A x \in {y \in EditTexts : JSONparse(y).ok} :
    (/\ mounted
     /\ \E t \in timers : t.by = "edit" /\ t.jsonString = x /\ t.remaining < DebounceMs)
      ~> \/ emitted = Call("timer", JSONparse(x).v) /\ jsonError = NoError
         \/ \E t \in timers : t.remaining = DebounceMs
         \/ ~mounted

\* valid JSON typed after a failed parse left its error: the edit's timer is
\* due and the error is still shown
C20_Witness ==
  /\ mounted
  /\ jsonError # NoError
  /\ rawJsonValue = TCompact
  /\ \E t \in timers : t.by = "edit" /\ t.jsonString = TCompact /\ t.remaining = 0

====
